---- MODULE Spec2Model ----
(***************************************************************************)
(* Model of the file-checksum tool (package main: checksumWorker,          *)
(* walkWith, main).  main walks the tree under *dest with filepath.Walk;    *)
(* the callback walkWith starts one goroutine per non-directory entry with  *)
(* `go checksumWorker(path)` and main returns as soon as the walk returns.  *)
(* A Go program ends when main returns (or on an unrecovered panic); the    *)
(* goroutines still running at that moment are stopped without finishing.   *)
(***************************************************************************)
EXTENDS Integers, Sequences, FiniteSets, TLC

\* ---------------------------------------------------------------- bounds
\* Largest number of entries below the root of the walked tree.
MaxEntries == 3

\* Largest number of entries below the root in the runs that are followed to
\* their end (fair runs, two runs in a row).
MaxSmallEntries == 2

\* Number of distinct login names in the runs of package users.
MaxNames == 2

\* ------------------------------------------------------------ file trees
\* Entries are numbered in the order filepath.Walk meets them (pre-order,
\* names sorted), 0 being the root given by -dest.
Modes == {"dir", "regular", "symlink", "special"}

\* What an entry can be: its mode, whether os.Lstat fails for it (then there
\* is no FileInfo and the mode is never seen) and whether reading it fails (a
\* directory that cannot be listed, a file whose digest function fails).
Kinds ==
    [mode : Modes, lstatErr : {FALSE}, readErr : BOOLEAN]
        \cup {[mode |-> "regular", lstatErr |-> TRUE, readErr |-> FALSE]}

\* Parent functions of the trees with n entries below the root whose numbering
\* is the walk order: each entry hangs under the entry before it or under one
\* of that entry's ancestors.
RECURSIVE AncOrSelf(_, _)
AncOrSelf(ps, i) == IF i = 0 THEN {0} ELSE {i} \cup AncOrSelf(ps, ps[i])

Shapes(n) ==
    {ps \in [0..n -> 0..n] :
        /\ ps[0] = 0
        /\ \A i \in 1..n : ps[i] < i /\ ps[i] \in AncOrSelf(ps, i - 1)}

\* Only a directory that Lstat can see has entries below it.
WellFormed(ps, ks, n) ==
    \A i \in 1..n : ks[ps[i]].mode = "dir" /\ ~ks[ps[i]].lstatErr

Build(ps, ks, n) ==
    [i \in 0..n |-> [parent |-> ps[i], mode |-> ks[i].mode,
                     lstatErr |-> ks[i].lstatErr, readErr |-> ks[i].readErr]]

Size(t) == Cardinality(DOMAIN t) - 1

\* ------------------------------------------------------------- algorithms
\* Values of the -sign flag: the three the switch knows and one it does not.
Algorithms == {"crc", "md5", "sha256", "sha1"}
Supported  == {"crc", "md5", "sha256"}

VARIABLES
    tree,       \* the file tree under *dest (fixed during a run)
    sign,       \* *sign, the algorithm flag
    mainpc,     \* the process: "walk", "exited", "panicked", "killed"
    cursor,     \* next entry filepath.Walk will visit (Size(tree)+1: none left)
    walkErr,    \* what filepath.Walk returns to main
    visited,    \* entries walkWith has been called for
    spawned,    \* per entry, number of `go checksumWorker(path)` executed
    wpc,        \* per entry, its goroutine: "idle","spawned","hashing","done"
    printed,    \* per entry, the lines its goroutine wrote to stdout
    fatal,      \* number of "Error : ..." lines main printed
    run,        \* which run of the tool over the tree this is (1 or 2)
    firstOut,   \* the success lines of the first run, once a second one began
    passwd,     \* package users: the names of /etc/passwd, in file order
    nogroup,    \* package users: the users whose primary group has no entry
    last        \* package users: the last call, what it returned and ran

walkVars  == <<tree, sign, mainpc, cursor, walkErr, visited, spawned, wpc, printed, fatal>>
twiceVars == <<run, firstOut>>
userVars  == <<passwd, nogroup, last>>

vars == <<tree, sign, mainpc, cursor, walkErr, visited, spawned, wpc, printed, fatal,
          run, firstOut, passwd, nogroup, last>>

\* No call of package users has been made yet.
NoCall == [op |-> "none"]

Paths == DOMAIN tree
NoMore == Size(tree) + 1

\* The process is gone: main returned, the runtime aborted on a panic, or a
\* signal ended it.
Ended == mainpc \in {"exited", "panicked", "killed"}

Init ==
    /\ \E n \in 0..MaxEntries : \E ps \in Shapes(n) : \E ks \in [0..n -> Kinds] :
          /\ WellFormed(ps, ks, n)
          /\ tree = Build(ps, ks, n)
    /\ sign \in Algorithms
    /\ mainpc = "walk"
    /\ cursor = 0
    /\ walkErr = "nil"
    /\ visited = {}
    /\ spawned = [p \in DOMAIN tree |-> 0]
    /\ wpc = [p \in DOMAIN tree |-> "idle"]
    /\ printed = [p \in DOMAIN tree |-> <<>>]
    /\ fatal = 0
    /\ run = 1
    /\ firstOut = {}
    /\ passwd = <<>>
    /\ nogroup = {}
    /\ last = NoCall

\* ------------------------------------------------------------- walkWith
\* The FileInfo handed to the callback: none when Lstat failed.
NoInfo == "nil"
InfoOf(p) == IF tree[p].lstatErr THEN NoInfo ELSE tree[p].mode

\* walkWith without the info.IsDir() early return: a goroutine is started for
\* directories too.
walkWith_NoDirCheck(p, info, err) ==
    IF info = NoInfo THEN [panic |-> TRUE, go |-> FALSE, ret |-> "nil"]
    ELSE [panic |-> FALSE, go |-> TRUE, ret |-> "nil"]

\* walkWith(path, info, err): info.IsDir() on a nil FileInfo panics; a
\* directory returns nil; anything else starts a goroutine and returns nil.
\* err is never looked at.
walkWith(p, info, err) ==
    IF info = NoInfo THEN [panic |-> TRUE, go |-> FALSE, ret |-> "nil"]
    ELSE IF info = "dir" THEN [panic |-> FALSE, go |-> FALSE, ret |-> "nil"]
    ELSE [panic |-> FALSE, go |-> TRUE, ret |-> "nil"]

\* First entry after the subtree of p.
SkipTo(p) ==
    LET after == {j \in Paths : j > p /\ tree[j].parent < p}
    IN IF after = {} THEN NoMore
       ELSE CHOOSE j \in after : \A k \in after : j <= k

\* The error filepath.Walk passes to the callback for entry p.
ErrFor(p) ==
    IF tree[p].lstatErr THEN "lstat"
    ELSE IF tree[p].mode = "dir" /\ tree[p].readErr THEN "readdir"
    ELSE "nil"

\* filepath.Walk visits the next entry and calls walkWith for it.
Visit ==
    /\ mainpc = "walk"
    /\ cursor \in Paths
    /\ LET p == cursor
           r == walkWith(p, InfoOf(p), ErrFor(p))
       IN /\ visited' = visited \cup {p}
          /\ IF r.panic
             THEN /\ mainpc' = "panicked"
                  /\ UNCHANGED <<cursor, walkErr, spawned, wpc>>
             ELSE /\ mainpc' = mainpc
                  /\ spawned' = IF r.go THEN [spawned EXCEPT ![p] = @ + 1] ELSE spawned
                  /\ wpc' = IF r.go THEN [wpc EXCEPT ![p] = "spawned"] ELSE wpc
                  /\ IF r.ret # "nil"
                     THEN cursor' = NoMore /\ walkErr' = r.ret
                     ELSE /\ walkErr' = walkErr
                          /\ cursor' = IF ErrFor(p) # "nil" THEN SkipTo(p) ELSE p + 1
    /\ UNCHANGED <<tree, sign, printed, fatal>>
    /\ UNCHANGED <<twiceVars, userVars>>

\* main with a join that only the success path of a worker releases: it
\* returns once every started worker has printed its success line.
MainReturn_WaitsForSuccess ==
    /\ mainpc = "walk"
    /\ cursor = NoMore
    /\ \A p \in Paths :
          spawned[p] > 0 => \E i \in 1..Len(printed[p]) : printed[p][i].kind = "ok"
    /\ fatal' = IF walkErr # "nil" THEN fatal + 1 ELSE fatal
    /\ mainpc' = "exited"
    /\ UNCHANGED <<tree, sign, cursor, walkErr, visited, spawned, wpc, printed>>
    /\ UNCHANGED <<twiceVars, userVars>>

\* filepath.Walk has returned: main prints its error, if any, and returns.
MainReturn ==
    /\ mainpc = "walk"
    /\ cursor = NoMore
    /\ fatal' = IF walkErr # "nil" THEN fatal + 1 ELSE fatal
    /\ mainpc' = "exited"
    /\ UNCHANGED <<tree, sign, cursor, walkErr, visited, spawned, wpc, printed>>
    /\ UNCHANGED <<twiceVars, userVars>>

\* ------------------------------------------------------- checksumWorker
\* The digest functions (FileCrc32, FileMd5Sum, FileSha256): the digest is a
\* function of the algorithm and the file's bytes, here the entry itself.
filehash(alg, p) ==
    IF tree[p].readErr THEN [cs |-> "", err |-> "ReadError"]
    ELSE [cs |-> <<alg, p>>, err |-> "nil"]

\* The switch on *sign: an unknown algorithm returns the error at once
\* (nobody receives it), a known one calls its digest function.
WorkerSwitch(p) ==
    /\ ~Ended
    /\ wpc[p] = "spawned"
    /\ wpc' = [wpc EXCEPT ![p] = IF sign \in Supported THEN "hashing" ELSE "done"]
    /\ UNCHANGED <<tree, sign, mainpc, cursor, walkErr, visited, spawned, printed, fatal>>
    /\ UNCHANGED <<twiceVars, userVars>>

\* checksumWorker without the `return err` of the error branch: it falls
\* through to the success Printf.
WorkerLines_NoReturn(p, r) ==
    IF r.err # "nil"
    THEN <<[kind |-> "err", err |-> r.err], [kind |-> "ok", path |-> p, cs |-> r.cs]>>
    ELSE <<[kind |-> "ok", path |-> p, cs |-> r.cs]>>

\* The lines checksumWorker prints once filehash has returned r.
WorkerLines(p, r) ==
    IF r.err # "nil" THEN <<[kind |-> "err", err |-> r.err]>>
    ELSE <<[kind |-> "ok", path |-> p, cs |-> r.cs]>>

\* The digest function returns and the goroutine prints its line.
WorkerFinish(p) ==
    /\ ~Ended
    /\ wpc[p] = "hashing"
    /\ printed' = [printed EXCEPT ![p] = @ \o WorkerLines(p, filehash(sign, p))]
    /\ wpc' = [wpc EXCEPT ![p] = "done"]
    /\ UNCHANGED <<tree, sign, mainpc, cursor, walkErr, visited, spawned, fatal>>
    /\ UNCHANGED <<twiceVars, userVars>>

Next ==
    \/ Visit
    \/ MainReturn
    \/ \E p \in Paths : WorkerSwitch(p)
    \/ \E p \in Paths : WorkerFinish(p)

Spec == Init /\ [][Next]_vars

\* main installs no signal handler and passes no context: the only way to stop
\* a run from outside is a signal, whose default action ends the process at
\* once, goroutines included.
Interrupt ==
    /\ ~Ended
    /\ mainpc' = "killed"
    /\ UNCHANGED <<tree, sign, cursor, walkErr, visited, spawned, wpc, printed, fatal>>
    /\ UNCHANGED <<twiceVars, userVars>>

NextCancel == Next \/ Interrupt

SpecCancel == Init /\ [][NextCancel]_vars

TypeOK ==
    /\ mainpc \in {"walk", "exited", "panicked", "killed"}
    /\ cursor \in 0..NoMore
    /\ visited \subseteq Paths
    /\ \A p \in Paths : wpc[p] \in {"idle", "spawned", "hashing", "done"}

\* ------------------------------------------------------------ vocabulary
IsRegular(p) == ~tree[p].lstatErr /\ tree[p].mode = "regular"
IsDir(p)     == ~tree[p].lstatErr /\ tree[p].mode = "dir"

\* A goroutine was started for p / is inside its digest function / is over.
Started(p)   == spawned[p] > 0
Executing(p) == wpc[p] = "hashing"
InFlight(p)  == wpc[p] \in {"spawned", "hashing"}

Successes(p) == {i \in 1..Len(printed[p]) : printed[p][i].kind = "ok"}
Failures(p)  == {i \in 1..Len(printed[p]) : printed[p][i].kind = "err"}

SuccessPaths == {p \in Paths : Successes(p) # {}}
FailurePaths == {p \in Paths : Failures(p) # {}}

\* ------------------------------------------------------------------ C1
\* C1: the run ends (main returns) only after the walk has finished and every
\* started checksumWorker has produced its outcome.
C1_EndOnlyAfterAllOutcomes ==
    mainpc = "exited" => (cursor = NoMore /\ \A p \in Paths : ~InFlight(p))

\* ------------------------------------------------------------------ C2
\* C2: for every limit N >= 1, at most N tasks execute their digest function
\* at the same time.
C2_AtMostNExecuting ==
    \A N \in 1..MaxEntries : Cardinality({p \in Paths : Executing(p)}) <= N

\* ------------------------------------------------------------------ C3
\* C3: when the run has ended, the paths with a success outcome are exactly the
\* regular files of the tree whose read does not fail.
C3_SuccessSetIsReadableFiles ==
    (mainpc = "exited" /\ sign \in Supported)
        => SuccessPaths = {p \in Paths : IsRegular(p) /\ ~tree[p].readErr}

\* ------------------------------------------------------------------ C4
\* C4: every regular file the walk has visited became exactly one task, no
\* entry is ever handed to more than one worker, and no path ever has more
\* than one outcome (never two lines, never a success and a failure).
C4_OneTaskOneOutcome ==
    \A p \in Paths :
        /\ spawned[p] <= 1
        /\ (p \in visited /\ IsRegular(p)) => spawned[p] = 1
        /\ (wpc[p] # "idle") <=> (spawned[p] = 1)
        /\ Len(printed[p]) <= 1
        /\ printed[p] # <<>> => wpc[p] = "done"

\* Two regular files were visited, one failed to read and one succeeded, and
\* both workers are over.
C4_Witness ==
    \E p, q \in Paths :
        /\ IsRegular(p) /\ IsRegular(q) /\ tree[p].readErr /\ ~tree[q].readErr
        /\ wpc[p] = "done" /\ wpc[q] = "done"
        /\ Failures(p) # {} /\ Successes(q) # {}

\* ------------------------------------------------------------------ C5
\* C5: an unsupported algorithm is rejected before any traversal (of a root
\* that exists): no entry is visited, no task is started, nothing is printed,
\* and the run ends with exactly one fatal error reported.
C5_UnsupportedRejectedUpFront ==
    (sign \notin Supported /\ ~tree[0].lstatErr) =>
        /\ visited = {}
        /\ \A p \in Paths : ~Started(p) /\ printed[p] = <<>>
        /\ Ended => fatal = 1

\* ------------------------------------------------------------------ C6
\* C6: a file whose digest function fails gets a failure outcome and nothing
\* else is affected: when the run has ended every other readable regular
\* file has its success outcome.
C6_FailureIsolated ==
    (mainpc = "exited" /\ sign \in Supported) =>
        \A p \in Paths :
            (IsRegular(p) /\ tree[p].readErr /\ Started(p)) =>
                /\ Failures(p) # {} /\ Successes(p) = {}
                /\ \A q \in Paths \ {p} :
                      (IsRegular(q) /\ ~tree[q].readErr /\ Started(q))
                          => Successes(q) # {}

\* ------------------------------------------------------------------ C7
\* C7: a directory that cannot be listed is reported as a failure outcome
\* tagged with its path, the walk goes on with its siblings without
\* crashing, and the regular files of the sibling subtrees are visited.
Unlistable(d) == IsDir(d) /\ tree[d].readErr

C7_TraversalErrorReported ==
    \A d \in visited :
        Unlistable(d) =>
            /\ Failures(d) # {}
            /\ cursor >= SkipTo(d) \/ cursor = d
            /\ mainpc = "exited" =>
                  \A q \in Paths : (q >= SkipTo(d) /\ IsRegular(q)
                                      /\ \A a \in AncOrSelf([i \in Paths |-> tree[i].parent], q) \ {q} :
                                            ~Unlistable(a))
                                         => q \in visited

\* ------------------------------------------------------------------ C8
\* C8: when Lstat of the root fails, the run does not crash: it reports exactly
\* one fatal error, starts no task and produces no outcome.
C8_MissingRootIsFatalError ==
    tree[0].lstatErr =>
        /\ mainpc # "panicked"
        /\ \A p \in Paths : ~Started(p) /\ printed[p] = <<>>
        /\ Ended => (mainpc = "exited" /\ fatal = 1)

\* ------------------------------------------------------------------ C9
\* C9: for every entry the walk has handed to walkWith with its FileInfo, a
\* task is started if and only if the entry is a regular file.
C9_OnlyRegularFilesHashed ==
    \A p \in visited : ~tree[p].lstatErr => (Started(p) <=> IsRegular(p))

\* ------------------------------------------------------------------ C10
\* C10: a run that was stopped from outside ends in a state of its own, starts
\* no task after the stop, and every task that was in flight at the stop has
\* finished with its outcome.
C10_CancelDrainsInFlight ==
    mainpc = "killed" => \A p \in Paths : ~InFlight(p)

\* ------------------------------------------------------------------ C11
\* A run over a tree of at most MaxSmallEntries entries.
InitSmall == Init /\ Size(tree) <= MaxSmallEntries

\* The main goroutine is always scheduled again: the walk takes its next step
\* and main returns when the walk is over.  Nothing is assumed of the workers,
\* which may be slow or stuck in a read.
SpecLive == InitSmall /\ [][Next]_vars /\ WF_vars(Visit) /\ WF_vars(MainReturn)

\* C11: every run over a finite tree eventually finishes, whichever files are
\* unreadable and however far their workers get; when Lstat fails for no
\* entry it finishes by main returning.
C11_RunEventuallyEnds ==
    /\ <>Ended
    /\ (\A p \in Paths : ~tree[p].lstatErr) => <>(mainpc = "exited")

\* The run is over and the tree held a file whose read fails, for which a
\* worker had been started.
C11_Witness ==
    /\ mainpc = "exited"
    /\ \E p \in Paths : IsRegular(p) /\ tree[p].readErr /\ Started(p)

\* ------------------------------------------------------------------ C12
\* The success lines printed so far in this run, as (path, digest) pairs.
SuccessOutcomes ==
    UNION {{<<p, printed[p][i].cs>> : i \in Successes(p)} : p \in Paths}

\* The tool is started a second time over the same tree with the same flags,
\* after the first run has ended by main returning.
Rerun ==
    /\ mainpc = "exited"
    /\ run = 1
    /\ run' = 2
    /\ firstOut' = SuccessOutcomes
    /\ mainpc' = "walk"
    /\ cursor' = 0
    /\ walkErr' = "nil"
    /\ visited' = {}
    /\ spawned' = [p \in Paths |-> 0]
    /\ wpc' = [p \in Paths |-> "idle"]
    /\ printed' = [p \in Paths |-> <<>>]
    /\ fatal' = 0
    /\ UNCHANGED <<tree, sign, userVars>>

NextTwice == Next \/ Rerun

SpecTwice == InitSmall /\ [][NextTwice]_vars

\* C12: two runs over the unchanged tree with the same algorithm end with the
\* same set of success outcomes (paths and digests).
C12_SecondRunSameSuccesses ==
    (run = 2 /\ mainpc = "exited") =>
        SuccessOutcomes = firstOut

\* ------------------------------------------------------------------ C13
\* The code keeps no counters: the only summary of a run is what it printed.
\* succeeded and failed are the numbers of success and error lines on stdout.
SuccessLines == UNION {{<<p, i>> : i \in Successes(p)} : p \in Paths}
FailureLines == UNION {{<<p, i>> : i \in Failures(p)} : p \in Paths}

\* The tasks that are over without a success: checksumWorker returned an error.
FailingTasks == {p \in Paths : wpc[p] = "done" /\ Successes(p) = {}}

\* C13: when the run has ended, even with every started worker over by then,
\* succeeded + failed is the number of tasks started, succeeded is the number
\* of success lines and failed is the number of failing tasks.
C13_SummaryCountsAddUp ==
    (mainpc = "exited" /\ \A p \in Paths : ~InFlight(p)) =>
        /\ Cardinality(SuccessLines) + Cardinality(FailureLines)
              = Cardinality({p \in Paths : Started(p)})
        /\ Cardinality(FailureLines) = Cardinality(FailingTasks)

\* ------------------------------------------------------------------ C14
\* C14: every error line carries the path of the file it belongs to, and every
\* task whose digest function failed has such a line once it is over.
C14_FailureCarriesPath ==
    \A p \in Paths :
        /\ \A i \in Failures(p) :
              "path" \in DOMAIN printed[p][i] /\ printed[p][i].path = p
        /\ (wpc[p] = "done" /\ sign \in Supported /\ tree[p].readErr)
              => Failures(p) # {}

\* ------------------------------------------------------------------ C15
\* The root is a directory that can be listed and holds nothing.
EmptyDirRoot == Size(tree) = 0 /\ IsDir(0) /\ ~tree[0].readErr

\* C15: a run over an existing empty directory never starts a task, never
\* prints an outcome or an error, never crashes, and ends by main returning.
C15_EmptyDirCompletes ==
    /\ [](EmptyDirRoot =>
            /\ \A p \in Paths : ~Started(p) /\ printed[p] = <<>>
            /\ fatal = 0 /\ walkErr = "nil"
            /\ mainpc \in {"walk", "exited"})
    /\ EmptyDirRoot => <>(mainpc = "exited")

\* The run over an empty directory is over.
C15_Witness == EmptyDirRoot /\ mainpc = "exited" /\ visited = {0}

\* ------------------------------------------------------------------ C18
\* The entries filepath.Walk can get to: those with no unlistable directory
\* above them.
Reachable ==
    {q \in Paths :
        \A a \in AncOrSelf([i \in Paths |-> tree[i].parent], q) \ {q} : ~Unlistable(a)}

\* C18: the walk never waits for a worker and the callback never stops it:
\* its next step can always be taken, walkWith has started exactly one worker
\* for every non-directory entry it was called for, it has returned nil and
\* not crashed, and when main returns every entry has been visited.
C18_WalkNeverStoppedByCallback ==
    /\ (mainpc = "walk" /\ cursor \in Paths) => ENABLED Visit
    /\ \A p \in visited : ~IsDir(p) => spawned[p] = 1
    /\ walkErr = "nil"
    /\ mainpc # "panicked"
    /\ mainpc = "exited" => visited = Reachable

\* ======================================================== package users
\* Login names, and a line of /etc/passwd whose first field names no user (an
\* empty line, a comment); Junk also stands for the empty user name "".
Names == 1..MaxNames
Junk  == 0
Lines == Names \cup {Junk}

Range(f) == {f[i] : i \in DOMAIN f}

\* A nil error, and the nil *UserList.
NoErr   == <<>>
NilList == [nil |-> TRUE]

\* The password files: every line at most once.
PasswdFiles ==
    {f \in UNION {[1..n -> Lines] : n \in 0..Cardinality(Lines)} :
        \A i, j \in DOMAIN f : f[i] = f[j] => i = j}

\* user.Lookup(name) and user.LookupGroupId of the user's primary group.
Lookup(name)        == name \in Names /\ name \in Range(passwd)
LookupGroupId(name) == name \notin nogroup

\* Userinfo.Get: both lookups must succeed.
Get(name) ==
    IF ~Lookup(name) THEN [info |-> "nil", err |-> <<"unknown user">>]
    ELSE IF ~LookupGroupId(name) THEN [info |-> "nil", err |-> <<"unknown group">>]
    ELSE [info |-> [Username |-> name, Groupname |-> name], err |-> NoErr]

\* The useradd command: it adds the line of a valid new login name and fails
\* for a name that is already in use (or for any other reason: cmdOK).
useradd(name, cmdOK) ==
    IF cmdOK /\ name \in Names /\ name \notin Range(passwd)
    THEN [err |-> NoErr, passwd |-> Append(passwd, name)]
    ELSE [err |-> <<"exit status">>, passwd |-> passwd]

\* The userdel command: it removes the line of an existing login name.
userdel(name, cmdOK) ==
    IF cmdOK /\ name \in Range(passwd)
    THEN [err |-> NoErr, passwd |-> SelectSeq(passwd, LAMBDA x : x # name)]
    ELSE [err |-> <<"exit status">>, passwd |-> passwd]

\* Userinfo.add: refuse a user Get finds, obtain the password, run useradd.
add(name, hasPasswd, credOK, cmdOK) ==
    IF Get(name).err = NoErr
    THEN [err |-> <<"User already added.", name>>, ran |-> "none", passwd |-> passwd]
    ELSE IF ~hasPasswd /\ ~credOK
    THEN [err |-> <<"credential">>, ran |-> "none", passwd |-> passwd]
    ELSE LET c == useradd(name, cmdOK)
         IN [err |-> c.err, ran |-> "useradd", passwd |-> c.passwd]

\* Userinfo.AddUser(usrJsonFile): read the file, decode it, add the user.
AddUser(readOK, jsonOK, name, hasPasswd, credOK, cmdOK) ==
    /\ IF ~readOK
       THEN /\ last' = [op |-> "AddUser", ret |-> Junk, err |-> <<"open">>, ran |-> "none"]
            /\ passwd' = passwd
       ELSE IF ~jsonOK
       THEN /\ last' = [op |-> "AddUser", ret |-> Junk, err |-> <<"unmarshal">>, ran |-> "none"]
            /\ passwd' = passwd
       ELSE LET a == add(name, hasPasswd, credOK, cmdOK)
            IN /\ last' = [op |-> "AddUser",
                           ret |-> IF a.err = NoErr THEN name ELSE Junk,
                           err |-> a.err, ran |-> a.ran]
               /\ passwd' = a.passwd
    /\ UNCHANGED <<nogroup, walkVars, twiceVars>>

\* DeleteUser that does not return when Get fails and goes on to userdel.
DeleteResult_NoCheck(name, cmdOK) ==
    LET c == userdel(name, cmdOK)
    IN [ret |-> IF c.err = NoErr THEN name ELSE Junk,
        err |-> c.err, ran |-> "userdel", passwd |-> c.passwd]

\* Userinfo.DeleteUser(userName) with Userinfo.delete: what it returns, the
\* command it ran and the password file it leaves.
DeleteResult(name, cmdOK) ==
    LET g == Get(name)
    IN IF g.err # NoErr
       THEN [ret |-> Junk, err |-> <<"User not found.", name>>, ran |-> "none",
             passwd |-> passwd]
       ELSE LET c == userdel(g.info.Username, cmdOK)
            IN [ret |-> IF c.err = NoErr THEN g.info.Username ELSE Junk,
                err |-> c.err, ran |-> "userdel", passwd |-> c.passwd]

DeleteUser(name, cmdOK) ==
    /\ LET d == DeleteResult(name, cmdOK)
       IN /\ last' = [op |-> "DeleteUser", ret |-> d.ret, err |-> d.err, ran |-> d.ran]
          /\ passwd' = d.passwd
    /\ nogroup' = nogroup \cap Range(passwd')
    /\ UNCHANGED <<walkVars, twiceVars>>

\* UserList.ReadEtcPasswd: the first field of every line, in file order.
ReadEtcPasswd(openOK) ==
    IF openOK THEN [ulist |-> passwd, err |-> NoErr]
    ELSE [ulist |-> <<>>, err |-> <<"open">>]

\* The loop of UserList.Get that gives up at the first failed lookup but
\* returns the entries collected so far.
RECURSIVE GetLoop_Partial(_, _, _)
GetLoop_Partial(ulist, i, userlist) ==
    IF i > Len(ulist) THEN [ret |-> [Users |-> userlist], err |-> NoErr]
    ELSE IF ~Lookup(ulist[i]) THEN [ret |-> [Users |-> userlist], err |-> <<"unknown user">>]
    ELSE IF ~LookupGroupId(ulist[i]) THEN
        [ret |-> [Users |-> userlist], err |-> <<"unknown group">>]
    ELSE GetLoop_Partial(ulist, i + 1,
             Append(userlist, [Username |-> ulist[i], Groupname |-> ulist[i]]))

\* The loop of UserList.Get from index i on, userlist holding the entries
\* appended so far: the first failed lookup returns nil and the error.
RECURSIVE GetLoop(_, _, _)
GetLoop(ulist, i, userlist) ==
    IF i > Len(ulist) THEN [ret |-> [Users |-> userlist], err |-> NoErr]
    ELSE IF ~Lookup(ulist[i]) THEN [ret |-> NilList, err |-> <<"unknown user">>]
    ELSE IF ~LookupGroupId(ulist[i]) THEN [ret |-> NilList, err |-> <<"unknown group">>]
    ELSE GetLoop(ulist, i + 1,
             Append(userlist, [Username |-> ulist[i], Groupname |-> ulist[i]]))

\* UserList.Get.
UserListGet(openOK) ==
    /\ LET r == ReadEtcPasswd(openOK)
           g == IF r.err # NoErr THEN [ret |-> NilList, err |-> r.err]
                ELSE GetLoop(r.ulist, 1, <<>>)
       IN last' = [op |-> "UserList.Get", ret |-> g.ret, err |-> g.err, ran |-> "none"]
    /\ UNCHANGED <<passwd, nogroup, walkVars, twiceVars>>

\* A system with any password file; the checksum tool is not running.
InitUsers ==
    /\ passwd \in PasswdFiles
    /\ nogroup \in SUBSET (Names \cap Range(passwd))
    /\ last = NoCall
    /\ tree = [i \in {0} |-> [parent |-> 0, mode |-> "dir",
                              lstatErr |-> FALSE, readErr |-> FALSE]]
    /\ sign = "md5"
    /\ mainpc = "walk"
    /\ cursor = 0
    /\ walkErr = "nil"
    /\ visited = {}
    /\ spawned = [p \in {0} |-> 0]
    /\ wpc = [p \in {0} |-> "idle"]
    /\ printed = [p \in {0} |-> <<>>]
    /\ fatal = 0
    /\ run = 1
    /\ firstOut = {}

NextUsers ==
    \/ \E readOK, jsonOK, hasPasswd, credOK, cmdOK \in BOOLEAN : \E name \in Lines :
          AddUser(readOK, jsonOK, name, hasPasswd, credOK, cmdOK)
    \/ \E name \in Lines : \E cmdOK \in BOOLEAN : DeleteUser(name, cmdOK)
    \/ \E openOK \in BOOLEAN : UserListGet(openOK)

SpecUsers == InitUsers /\ [][NextUsers]_vars

\* ------------------------------------------------------------------ C16
\* C16: in every AddUser call whose file is read, is decoded and carries a
\* password: if the user name already exists in the system the call returns
\* "User <name> already added." without running useradd and the users are
\* unchanged; if it does not exist and useradd succeeds the call returns the
\* name and Get finds it.
C16_AddOnlyNewUser ==
    [][\A credOK, cmdOK \in BOOLEAN : \A name \in Names :
          AddUser(TRUE, TRUE, name, TRUE, credOK, cmdOK) =>
              /\ name \in Range(passwd) =>
                    /\ last'.err = <<"User already added.", name>>
                    /\ last'.ran = "none"
                    /\ last'.ret = Junk
                    /\ passwd' = passwd
              /\ (name \notin Range(passwd) /\ last'.ran = "useradd" /\ last'.err = NoErr) =>
                    /\ last'.ret = name
                    /\ (Get(name).err = NoErr)']_vars

\* ------------------------------------------------------------------ C17
\* C17: in every DeleteUser call: if Get does not find the name the call
\* returns an empty name and "User <name> not found." without running userdel
\* and the users are unchanged; if Get finds it and userdel succeeds the call
\* returns the name and Get no longer finds it, so that deleting it again
\* reports not found.
C17_DeleteOnlyIfFound ==
    [][\A cmdOK \in BOOLEAN : \A name \in Lines :
          DeleteUser(name, cmdOK) =>
              /\ Get(name).err # NoErr =>
                    /\ last'.ret = Junk /\ last'.err = <<"User not found.", name>>
                    /\ last'.ran = "none"
                    /\ passwd' = passwd /\ nogroup' = nogroup
              /\ (Get(name).err = NoErr /\ userdel(name, cmdOK).err = NoErr) =>
                    /\ last'.ret = name /\ last'.err = NoErr /\ last'.ran = "userdel"
                    /\ (Get(name).err # NoErr)'
                    /\ \A c \in BOOLEAN :
                          (DeleteResult(name, c).err = <<"User not found.", name>>)']_vars

\* A user was deleted and is gone from the password file.
C17_Witness ==
    /\ last.op = "DeleteUser" /\ last.err = NoErr /\ last.ran = "userdel"
    /\ last.ret \in Names /\ last.ret \notin Range(passwd)

\* ------------------------------------------------------------------ C19
\* Every name of the password file passes both lookups.
AllLookupsSucceed == \A i \in DOMAIN passwd : Get(passwd[i]).err = NoErr

====
